---- MODULE Spec2Model ----
(***************************************************************************)
(* Sudoku generator, board and session of 0_final_project_sudoku.          *)
(*                                                                         *)
(* The specifications share the generator's actions:                       *)
(*   Spec       a client of SudokuGenerator in the order generate_sudoku   *)
(*              uses it (construct, fill_values, remove_cells), with       *)
(*              get_solution callable between the operations;             *)
(*   FairSpec   Spec with the loop of remove_cells running on;             *)
(*   BoardSpec  a client of Board: the constructor drives the same         *)
(*              generator, then the Board's methods are called in any      *)
(*              order, on the cells the play is bounded to;                *)
(*   GameSpec   the session of sudoku.main: one action per handled event,  *)
(*              the start click running the Board constructor.             *)
(*                                                                         *)
(* Grids are functions over the source's 0-based indices.  Python lists    *)
(* are objects: heap maps each grid object to its contents, and the        *)
(* fields gen_solution, solution, original_board and board hold            *)
(* references, so that a copy and an alias differ.                         *)
(*                                                                         *)
(* The random module is a hidden global generator.  rng is its state: the  *)
(* seed it was given and the number of words drawn since.  The words are   *)
(* those the Mersenne Twister yields for that seed, recorded as far as the *)
(* runs that return draw them; randbelow and shuffle are the library's     *)
(* loops over them, and the seed is an input when a generator is           *)
(* constructed.  Past the recorded words every outcome is possible.        *)
(***************************************************************************)
EXTENDS Integers, Sequences, FiniteSets, TLC

\* ---- bounds of the model ------------------------------------------------
\* random.seed(s) for s in 0..MaxSeed before a generator is constructed (Spec)
MaxSeed == 4
\* removal counts 0..MaxRemoved, and N*N (Spec)
MaxRemoved == 2

\* random.seed(s) for s in 1..MaxGameSeed before a Board is constructed
MaxGameSeed == 1

\* board sizes a client constructs the generator with (Spec)
Sizes == {4, 9}

None == "None"

\* a Python bool where None is possible too
PyBool(v) == IF v THEN "True" ELSE "False"

\* no grid object / no Board.cells / Board.selected is None
NoGrid == <<>>

NoSelection == <<>>

\* ---- grids --------------------------------------------------------------
Idx(N) == 0 .. N - 1

\* [[0 for _ in range(N)] for _ in range(N)]
EmptyGrid(N) == [r \in Idx(N) |-> [c \in Idx(N) |-> 0]]

SetCell(b, r, c, v) == [b EXCEPT ![r][c] = v]

RangeList(N) == [i \in 1 .. N |-> i]

\* ---- random module --------------------------------------------------------
\* The 32-bit words the Mersenne Twister yields after random.seed(s), for
\* s = 0, 1, ...: of each word its four leading bits, one hexadecimal digit
\* per word.  randbelow(n) for n < 16 reads no other bit of a word.
Tape0 ==
    "d6ce604f876ecd4f759ee38242c19c4fe8fbc9e241b1eda57815659ae3f877d8"
    \o "40ce8e01bd6bdcaa097dd53b5bd13e933cf2c8711f5e8fe71484b185de83fc98"
    \o "94719c6593423d209fa4711ac2e2e0d1ebed8a6db848c3d3ea9df69477aafbef"
    \o "c5159179a5d330b41b35c256d01c2db30d9aee89a101a39d91615df10903ff2b"
    \o "173bc0ea08691d4131a4562087091bf6345eb7dee92ba3fc0ca2d258419e7a20"
    \o "7a6e9d8e4a56da428b07b15b08423cf7594a59fead92b46b6da1093b5233a76b"
    \o "ea9d606db96cab02714b278e7e89c0e0754d70cdefc638ffaf1db2f06fa65030"
    \o "bc0fda891319a3d44bf217de6a104e7cc1d42a8daa51d24d0003a485f5f9ed0d"
    \o "bfb9a7bae7a65d823694022455c5b15c900422f9456f82417b3e042d8b146d54"
    \o "6118e775dcfc5171b76045bae2e2a96cffa11c13b3060168847e7c9ba36153ff"
    \o "49c263511dddb0e87ca317643a0ffc392137658d21f9f7296aa6e87aee5d7f7a"
    \o "ad389e305bfbe5d5082d49c2d694bbc71c18de0132040cd75d2c2da7f586e880"
    \o "91acc8c9f1b6ec348e96df7dcf6993ddc0ae0b24894517d4fd4c66c602ae234b"
    \o "d50f07627ed9b1ab2cf5609767017c200992a51b8a536ccc71e09b79ae5a1fab"
    \o "94cd2fe6c4ebdfafc18dcf30c675c375ca1f0ee074e0f8a99e331cdeeac8b868"
    \o "4f126e96e1e16116c2bf0c76a607edf5b415115b05520df3d519e2303aabfe1b"
    \o "045b0e93d227175bf420f3557f44eef8a529f1189426e2f2c35833c2456a0d29"
    \o "061b126486be2964a5137a5af806606fbe57354f71f2c14189b2cb7e62c6623f"
    \o "75e8257aa17c340db7970341cfa48926bc71a7cf38c64af014ea00468e9b671b"
    \o "454dcae39101c448518d3eec216d448298a3816fa86bcec44759a221b1669728"
    \o "a45a7b6377b857af0742b70e930576ef0d8f1ad1afbea6050190f4dab4be32c9"
    \o "43167b56256aea627eb28523e275cf66c76b3c37f39b0e603a1d250baa239491"
    \o "bd8c4cee5670ab8afaf8ebe69774b73540002504a021c6a3f968e3735919e1c5"
    \o "587e540803513d853d34abb448d6475db304e81077b70ec6f77711131dc26ee3"
    \o "791d68ced60f23732dd4e55f618e498c3b4c78978a443019cb12b6334ebfa0b8"
    \o "86d016a41fb953abb8a43bde3184a535a74922c088559a0c2e62f28f12c3cec7"
    \o "9cbf33b2d3c65992a7ee19d08957740f38a2ae7cfb785bd14296b3d5c46f0305"
    \o "bbf35d7abaa345a2405980ba2507a003003fa51d05fa62ee3762542a5bfcb660"
    \o "6e488cbfab7c09e16f620829da8dbb2153ddd23f0fce2bcda82b16ed919a7b29"
    \o "9045cbb60aee07154a273852bc654c7f6048e487f0c8984ea076b1657004bf04"
    \o "aa9bce4fac3c8856fdf4319f5cffe39ab8ae52ede25dbd09d092f554a457c696"
    \o "f20c290725e0fb7efadac4b9318e64fd2821aa291f8ac896c644406cfdb4f488"
    \o "85f53bc6c2d0c82cabec9657f08e6a9ccc3e058ff2a3a5ab70bb39e342fce619"
    \o "73bb7d8eccb1f327e1e6a6f446ecc59514070c43c666caaa6bed0975d929b45d"
    \o "067e82019d55013b1a8705eddff056e2ffca46a2926d48022e2e7babcb0bd80d"
    \o "8bbba6f25c9d1182d43c45bb4c48e7fe2ce7820a92a80ec5df13ac793c782b5e"
    \o "a27c8081d850dc11695975d685fdda125e02b205e9306a0b4c6e09ccb25ede16"
    \o "0759e9c4a49dc76207c43f61511050269bae057c8bdb771d08d6ccde40a81dd1"
    \o "55f17f02e8ac4f00652f8b222ce2aa3fee95f07feaa6033a452f3532e675e926"
    \o "9c02e90a6bc2f200d58000ce1992c2ac6c0669ea5b3e2583861269a5f16e6376"
    \o "3e63a76e91d4f4e858099c7e34095dc6fa18ed02b60c6bdf66e1b7972257629e"
    \o "fd4c81e552a5c7a8c03ef42b9546a04860a646b35221952069671abba1c68b82"
    \o "22323082d75ee9b4bc5a1cfedd6cd4e25a8f58b2e6fbb843eef656f784f6f6d1"
    \o "af22099abfee81bcab39a9f814bb9261c001e5db751a759b4a7cc3e288de1cd8"
    \o "ee20dad2ef869a37ba64092e62e790e6ec1a96538d707914d878a674238524d9"
    \o "de271f1769f681473d1425c12ad0da298300d68bc97bb1e785dc5d1a0337df44"
    \o "3075ff8e5114963b5f6dc234e3bc7aec54692dc1658d73ab5ae5645f6ccbf4d1"
    \o "7e41725e3b2ef5731a6f6787feff9d93a6847358a01756ef3df6f09c06143b52"
    \o "12cb503f0068021d99ee31b73d08e9d6182e33e667c0636fc09f4095b5d5a7a2"
    \o "9814f1b140b29ca2639fa53688181be718e77278526461985ddd37357ce607be"
    \o "086fcc736347723745a79ee2fd8a134e8aa1f02505d9c2ce76a3673260cfccf5"
    \o "ecad83b528e8bd9962ab97ea9e397037e9d58b3000237da93aa1dfc86eaaf4ea"
    \o "57a3258d5b767fa5df7123c1c2fe6f7b83e5b00631d699dc683a0ffa28ae7468"
    \o "8119fb7c0369c541b0cc39fd09df852741974edf366b8e53d94e1025a9971ff8"
    \o "7656bd0169aef2c2e01b630a44615459ca3bd88058802e7d0ad4525ff1986fcc"
    \o "149181df92708dc3518db3f2baf3639bb7524bfe5ff8d337d5f248acc01ad54d"
    \o "bcf501904c12b4f3885d71688d6119f7f5243a6ab400d0ad41dfa55f8af40cb3"
    \o "deb82490c664934f5ec87e7b1652803bc7603141d2e2f70ec586183744667bee"

Tape1 ==
    "29dcc1417c77a6c3170ed669cc0b74bc39f1e5000a80fe6a3f6b083c7f78353a"
    \o "3c7f4e06de8ea12afbd41b5ebfb8ef68dea3449fe7df869d073bc66a258ebcab"
    \o "517a81c28d657b0704bdf9996a2283f0c38ed83685fd957e4a89fb06cddfefb8"
    \o "c28c836f07d5983f867d5650889c95790c3a2892d1c8cdde40dfa11d070cc434"
    \o "1c925412248f2a4ab47b577104656c3414eb8f3f96df030620bf27b8a68d3ffa"
    \o "cb8738a06a9c5aa60b42f3e041d14ef4b2694208ed09d3fe972dddfcb9806351"
    \o "39ae69371fa6487059d6e4023d5cf9c25634a1d6e85eeda87cf831b01222e834"
    \o "c598d4555143df9cfbe7298c150616dfc2d25199ce6198391f45e498e17e41c0"
    \o "d409a0161dec033cf962172a32bd16ef6cf8ed484b7513a5000cfe4b95765611"
    \o "e5f9f7143c9cfe8db7a5428343351d41fc71a9a5f36f40525cd9ee4351899c91"
    \o "330c36148d1b10a04cc577dd218cc518fa22c2f2dd541b8de942e328eb0c5de9"
    \o "cae8dfbfb3246820bda34c1af7c68487d8706d52470cae6f900b5929224fd469"
    \o "62913702858eae7eaab3357a7f3b6589ebea4fa30e1c8ae528cce344b4d852bb"
    \o "b791d1e9f89622463f9bcc07a6ba568d28bf08f1c4a14be1ff2fc9dfaab17de3"
    \o "fd6fce662e5729e7f316986e1a4436b80f387900af93d4324283449c4da7cdcd"
    \o "f28576d1c39e634c1ec019b084facbfa21859c468a5c85017b754865cba971ae"
    \o "66380f4a9bebdb83fe79d86ebbff4b279a83580a696f65d99fbbefb17fb3afa4"
    \o "a06ba2ace6c4d2c1dc905e4cb6da8427d472780481b96151a7028bf2b16ab494"
    \o "3833e5411bde8a5788b024abbfd8459b368627c4d95b34f9b3da0ded965e6ec3"
    \o "c431ab2df979eeb29f47822c2eb754c631b3ba4113657e1f200c90ec3a07b8db"
    \o "fe975ad419b21363776c2f33d4789637b45791e3f100c0d75e6d94e362edca2c"
    \o "e0062ea80964217ad4e00808d20e4c161307a2b4add3a765a4f4aa3309ec9256"
    \o "9b8a8f0e58683be86ea1b4b9bfc142f120e3d6d00a1ed87851f502807a2e6cbe"
    \o "e70b8414c5140d60b45b24c6c1da416d38835e58c6fe9712ad78f8bdd9b880ef"
    \o "df4b23568516529104dca85645545bb8808125eb5c5917f477e5ebf6dee1e9c0"
    \o "20879df4c3b9b55ffca56479f5882024a392e12c6fb90c1f8a4b1341a98a1d1c"
    \o "d3ad28d6095ed7bc43e397dee367a58ef3c7b1ddff4630b8c68e7169e8c99605"
    \o "df703f4bba081d48efb5fc8a9f84868fdef869a9474287928cff24a0f6ba9056"
    \o "64eaeca0e1e1d06474cc5abd7c567c1752620f2d45d29c4ff64f84b6b465ce73"
    \o "bd7ff6b61123f23b01427cf16ab2d0169ff0838650fafe1b8a6dab1f4a427ccb"
    \o "d0c3aa1d61a74a87e619d71269eb32846beef84d7aec8e3cc95d710cfba5eefb"
    \o "408a74ced13844b36224368a9ef08d982f6447b447375973529c2be9b7820858"
    \o "b2accfe35977512e2b431a8db092a139389ae4650c0d4d931b34aafd549b8601"
    \o "55214ec2a90511bf14534805012e65ebab31a5408e5ff15eccabd29ed461a99b"
    \o "87968e64e3a4820981233e6480484f84726b1b51af8588dcb8a90947a221e92a"
    \o "ed37dcdc55e422dc6d761f9244aaca9f08f0eda26b8fe170c69a64e56697017c"
    \o "0abb0c0d19288c584cf9efa5c7db3ec9318f5d21c0eb56eb54aafece0966654c"
    \o "d57cb3a98205a1e828aa7e5cb1f907e36adf26b3135ff5a3ca7b757acabe3676"
    \o "8197e4d220661c0a1f27c6a8cd4e22f8d1f4076cabbce38b6f08c3f6e2a25a31"
    \o "c8e8f226908363c0e8b3b8b9af8136c719a06181ad70f83c00fd474b6292f8bd"
    \o "5c8a7f8c682b6b6c37d45e2494d2cb91b55e24445649702f2f4331c989386bd3"
    \o "92876b31ae12ca00b666a2992a881e3d6243abf65bd234b2578418d43b704cc9"
    \o "9195c74900dc52c2fead11d6a93b38861eefb3df6ae82db94b0b1c3fc96a7893"
    \o "40a2aae883d6f4ca66471add22807c0736db8de5e311ab0d6d73f2983d868533"
    \o "5ae9fccf15e070d92e2def470981fdd961f6c8d9a464e57fe08fed70649b5c29"
    \o "98df41d9ccc566f8c099109801e55e5c80a5917ea1d8758ec80e2e5532e92916"
    \o "5d86d5f5d4950b1ca3dc4cf6849c911b2eef461248ba43314b70b84cdcf3d818"
    \o "55e4d8207d5cb00f56b2e80b9baad862fe33192f981b473c05f75ef9b53eea00"
    \o "f7024e8003ce18d20f83374378556fa13923a94fe96975070e1aa9a9fd6db955"
    \o "1a63b8c7fdd99a8f8d79ab9edc7972d4ad849cc69844409c0c77e53873b7e5bf"
    \o "a26d60a15dce04c8b04605549ecdd03b151afda12cb4f69530fabb2ccc8b9a54"
    \o "466e8f7cdd1f36f39093a33b66392bf4bbe50bba4772a20f5685dc875f919a4c"
    \o "8a460d4c1a7183d9babffe465c3019888224e0fe130a06bbd01000855c090837"

Tape2 ==
    "fdfd0115d2bcad4493909a2f6a6cbdf8f58e784e0d057e5e66ee828233025228"
    \o "85f8a82fe7c6b8eec5c955fdf72fc6bb7a8374e788dc5ae7ee759be8b77a3f5d"
    \o "bd2ee94ce744fcbd8888a9964b3785ea9e1cd5b0ed3fb109a0493aee1c82d43d"
    \o "3fe06ebc005523a011f100be0542de2b28b0690cf32f005f9abb14570478c9b0"
    \o "e4c6d9b27f31aa5d107cdf289c67852df5449f6a0b8f2a04022217a38efbe0f3"
    \o "3b7141939cc9b54a648c02066218b131102c31308a7748a63aecf3bc6680990e"
    \o "6e892e1ac7508fe1954bfe540da61143dcad0c706a773e99104054eb13c73195"
    \o "6b72c56e141119d5a6f3b109a7c0bb745f72c5478d7bfbc6e7da463279486bab"
    \o "e19bd91152f82c6e1c1eeafca02f463baea57284128fffc61583b842e27fb36d"
    \o "f5cc9b277b0c96eb26807464bbe6ba75f85bbea1cddb38936da6feae0578bee7"
    \o "a2d106f3b996e3ef16d8cc34be9937c9209a6748927b3ffc150e78daa1c97eae"
    \o "574e870f19c52ccfcf64aacddb20276f7a420487f0508d6973da47a27b8be414"
    \o "d545afc4aa68de18a3698dd2c8a1403f783840f11adc6d53551575277d47e2eb"
    \o "7fa3e4521e373cad5252c234c8a66cdb54ebe989bbf5b6cbdbeacffb489aa154"
    \o "6724fe5771ee25f62f015251eeebca60853dd96847ae2553e71f2c3542654153"
    \o "3b3b905f5ac90d22d167c42589d15acb9f63f06c779d58d991988af7f6db7266"
    \o "870e17f921eea8e21647cb041a532026af15fda70de73172802b880038e0dd85"
    \o "a8e325702813173c093a659ad6eeb88cea281dd2af326345626265c4c1817448"
    \o "c7f436b2b8a1098c333690a2a0b4bb780bcdd3d2950b3f12ab8e2cf1faed7a4f"
    \o "32d5bd4de8916e6ab074ad1abb4fe036548b698bee36c2b2cd7d7f5679493977"
    \o "3c7d9541259ad73c9aa9e2ae4d38dd410cd03f50584cba5d7167db049923229c"
    \o "6b1a97e4a177cce3294dfde339bed599b6863a3804a32f9b6d61f7667f643330"
    \o "88de19f8a006b6638415858fc791b7bb3400702a23538092a4fc1a881aa26b20"
    \o "48a470f85c5ae19519c55cffa4c7e489f20056da05aff8b0da1b889c6663c229"
    \o "009cfbd5a240ed0f39cee361e51e9e1338310b618d49a3088f8e66ec22627b50"
    \o "ff928d7f69fdcda7279f2d5204b2f2a69a4f7773664c35caf0d69d064ed0fe87"
    \o "94a437b758d97ea38d8274fec5618ae3bfaaf616979871fbfd679fcbbb5ec852"
    \o "23aea2677bfbc264e59e64abcfe4a5a069037110fd5595b62bde5c189769e37e"
    \o "19050472bb00567ae9f0e7ae933b95254cd699b77c41839535d5fc2e38cab933"
    \o "9736d4938d206c7b5a2a3bb9e2d790cb2e3fb30917ca3b2469d005e140957611"
    \o "f722ceec7efa142d781ece8bc44e08e8316e22947e3d0b57c02f3d95a4cba1d3"
    \o "2de3051415c18cedfffb9252f6bb348c0c05a2b1d8c02fb7f6a57a441ea2fb10"
    \o "d1e25edb2f4c9aee821fe39bcb3c5f1e2a636aa0df56e7a85e28f1ad02af626c"
    \o "cb3a498be118d9b923af9ab18f52833a7a671530516091bc4583563022f2ebdf"
    \o "262f1a4c670160b1d03603cd6d5d224d4c493f8fd449677dd6c4f62ac64c9786"
    \o "9b581904e6e97b1edd8878a42f35d1b3f362f8e386ed2d14d72c81b5a23ec806"
    \o "80e68c43f2b6c3ede39fd38e4849420a9f68eb00c7385f4bfea075270354fb74"
    \o "a8e40b506a326ba726bf41af2cc06ed1f8920053faa9c876faec9b951d0130b8"
    \o "dfcde80204410a90e5e416aeaaa26033e2e9b68d094139303da3ad29ed02f193"
    \o "a345b1ea3a29cf3f157b23364013df94a548cff4fa0c4f1f78a29954fe96f96e"

Tape3 ==
    "39825e97a9190ed74833fb78d876ad23a2de86b0ac12cf904c0dd479bee6bce6"
    \o "6bc97fe2e5102734fa6cad468d69589693e5aee0d4f9ab2bd5f8e991ba3adf94"
    \o "4117daf715c16e2046c6d1099c06b958eef483f04011980f3f64942b0fd555f2"
    \o "ed667d86ad9a819ffc846abb3e46f484850c6f950699a20aa575ae59b4b7090f"
    \o "a0f54a749952525c5d944c61cd0f9ab2483ac4352a6ab1195f5ad37cdf215ba3"
    \o "e9743c108f35cdd92d45cda1c9592648cd475a646960e62307fde9f868ffeb30"
    \o "b7dcab8f485e3d1d9f41c300ecb8e3eee69007b12843a08860fe91524fd87cc0"
    \o "53318ed123c4eec2de07a9d60c4349886075cd0d0c201017f0db1887525156a6"
    \o "94543f561280bb6c1920579ac86ac09e605a7cb56fb6703384b91c6362e0e55f"
    \o "e8cd417b1fdbade8c6a1b5981c9b0723c608191ae62d05dd10d1a7dbf494c10f"
    \o "c988b318b1e8085d92d13f2a379bcf64596f586f1683fe6dbf26b9c9ae8a72a6"
    \o "ee2217b7eb8f79bd224c32985e3db8fc4abd69d99f4e34047c63295357cd26fb"
    \o "7b9379deda807fb1df6cbef07e3e3abca1f3d43e3c4229bad0ee42d05261bc11"
    \o "14de40579ba5005566713a9bf762851e41a617e8e418fb5ac5c74aaaafcd41cf"
    \o "f5a9881a7850b4ab9b2aaba225eea711e82e5aba9684a2774c2b11b2c889b651"
    \o "4460d207843bc85e5f678cc157df12491a19ceb12b396ab6dfb2992d6c388292"
    \o "3d45c40dc7e6fd658e94a7f8ab4eda7093ba01cca3728a733c830d8eaf7194fa"
    \o "e227c19e0059381780e555d5bb21dd9ce0b1bf5fc3e1d36bc3751c061d3b2677"
    \o "b18d63a74077cb6727e0b45d5785963f0c34c52d78323029682a021927720d06"
    \o "7560bb0360670efe33167325915e190cb44fcf7cef473840d5af5510a6f19901"
    \o "0a10280703a8e53efc75c7e5fa064c9af61f42d6186858ace62dbdb6df85e25c"
    \o "6737cb754d28bc9ebb6f7022bc0d71cbaa1539dca0e9d077edba5f50136cfe15"
    \o "94171da33b0f2ea29f0134f33d8868ce95ce8c372910dc190df13fe411763dda"
    \o "91a7cadb569a7c14df97d6318074ba15537c1e8ab56ca198335df0536714352b"
    \o "e3b3defb97eb8d65f3e9f67ecf67f9e04fe02e10b24880a703b3476057b3bc42"
    \o "174e671327ccb4f6fcea5f264f778f835fd44075e5cd4b3ec8002a82802f003f"
    \o "cc75ffc5f80723046e5d098c17443ac76b450060afa2ecc93f2bcdc68cd58240"
    \o "2007a0ede778aceddf98658a2421a2fd816c5774c474f829528067d3d7e99405"
    \o "9981724cbce416a15087ecfda734e52a6fd65043f0f55968402646fe173f3b1b"
    \o "81bad1adde0f4ffb164f7744880237f222eb2bf7a6a02602ca243ad2d208f283"
    \o "6c1662f0412124265fe91e30f5f2f73158fe71bd570b58bdc79678847287d63c"
    \o "94ebdb24fddf254d3209f069d21902d1c6f9a58bc4178975299357895a595b9c"
    \o "fbe5dbd54ff4421983bf5ba346f472758cd2f9887f901668d9c403d663f15830"
    \o "87e16bd6b8504585675eaae197253051902e135643008be587b5dbdce375a918"
    \o "ee6372e44831d29e160c5607df2742638a69afa4641afbbe117ecbf51d057e6a"
    \o "e1da5a6e93e53a6f10a80ee8839d123d7dde8645f7af833945e929859855cde9"
    \o "dbb8370b6d4a37dd32d1f71ee86d352c05736edadb036563244540bf5b133472"
    \o "9237b33ca5932ac8698692a47501c8d7709248e6a736d8f756f97c21b65db295"

Tape4 ==
    "341b67211068e4cfc038854c2d143fe0dac4c43244adbfdde51d95a68323741f"
    \o "eddf8d40e49be4dc836694672344dc0107af488a7b52fa316e3aa74256b95a83"
    \o "e51d0b34c99d315e247005b1eff4baf50545f2ca6dfd9ad1493e742469f25905"
    \o "0725cc5f4917f36e31000b29af29087935f01d84cf6af373376703673ae6d373"
    \o "0044383c36d4250ee591f96feaadcbb076163ed9efe254a7cea5d683acac45e6"
    \o "f71df4faa306e92cf4ad0d2ba797b6e63c03e209e416ccc6e380ef32a95de8cc"
    \o "7e87010b9178d49c2051ce8e04d5d11f8763cf463c7df6111e9ce58f66dbc71a"
    \o "ef3a4ed761c825d22b257d548fe0b20a41817cb9781836d453c2fda0a09e58ee"
    \o "7ce94ed8c7997624c95fa526192ac924ef539c5a9e116aee25a5524e0908fcd1"
    \o "c5cdf1229f7a9ff1ceff12a7aeb39cda4deb6e93e7b3453b58a8f7ec686fd547"
    \o "69042e87b89d56f6902817fffae59c4e1c473ae7e9c12e3142f026c9a98bf840"
    \o "832c130f51140efa49eab2b2a6f2ebb185b0be828623d4781622de4868a4d652"
    \o "606f04ea04fc2121d9d033807eb82ed7fbbdeaeb65d2d893179ee54eade69b0d"
    \o "a349dca94ce7ad5cd1e3e5e1afb09587ff5e12b0788d9b303a15c9e2b418fedd"
    \o "8d01d3949f0ebf007b2353ebb5df4d6a960267f1c8d848b4c3bb652307e6ef45"
    \o "ce6faed65c93448106494aea29c51efc291b3ee4a3ea7c1a5079f32138d11cf5"
    \o "4d99a2eb1adf2ebb0ccc2a34095a5bfc9d5ff22c30f0f2affe0ae4beaad71d3c"
    \o "2679878556b6d0ce022534359d3f9a5658b1f33f52f8300134dbb5f87f0f4cbc"
    \o "622f6975507b270bcebb63154980e172fa802d939590ba0663c9290229436b58"
    \o "a52b5ead8af9e5495f808259dd377d11ea93f228b29d08d5df1bf0cd92824904"
    \o "7ed43a7c48bcf0e24e600589ded5136a1c6ce043daf3d23bebe1f10e0f488861"
    \o "18a5a2a38b80b0126f2e1fc8585a429919a919f020c48a6c495fc285873f972f"
    \o "7fa980989f34f9a9b9fb7f52425f4d5b3879445da251d3ce5ad3271ff40800df"
    \o "0eaa823e35fa663a7fb64815c0120606f26ab083f5585ea20551c69375e968b1"
    \o "6217683c01412277b5cee656a4ec6eeb1ce5e6f8d1b76fb5e39d92e6415808ec"
    \o "adaa392c73e85e6768da17df0db6c57ebb43255248bf9eaff7c9c2f7e6b7598d"
    \o "cfcfe0bca6499b2ea82d07fad94200d3c525d5d7934c0a1071bba337c8189223"
    \o "0d38c33f0875549692bcee5aab194410df5eb0ec613b307b651fdcabd1d2bed7"
    \o "bb68d6eb12202a78de87d75f963da449046b95eb4cebc128c3eef2bc6a82a29c"
    \o "38e18b1c40187a1a8044d3cc31c49648e401659c2b79eb5fbb3df7f32fc25b0e"
    \o "33b87f85292d5986db755fefbcc1c774421ba4b7efe98a7bf7145b819490268e"
    \o "2a672053a368237ba7464563ba0ba90ce83bdd08754ccfc0250bb66c53575690"
    \o "6b2276f4c2bbef7855c91cc2249e8ac217abd80eab49b3fc066472fdef012e6f"
    \o "cdc487efdce1a548bebee72e0d54446509926d49139117d946eb1f66c78a79ef"
    \o "2ad7824d5e4aa17a89abd8b34fabb8ec6487c8505c9758dd52339591f4fe6d74"
    \o "a6829b63d6e4c5b2ed47f3371a79214f9025655bf21980752b5b5158818e7a78"
    \o "9b722ba56ddc2d8f47acdbad92e23bfe73a628042e8c39c528a3e5b6ebddd105"
    \o "8f4271b4bd3a2918bad5102e29fd1294ee20ad55a4772be185f494faa40808f7"
    \o "a4c0d851b4a90b8cec87ca1767878ddb759083aa92694fd957b042f6386d51e3"
    \o "b64b39b9712d1abbaacb1b7e26913f398f2bc22142cb4341cd9bccdefd166f7d"
    \o "48de6fe31677acc87be44b5f343d73b83d7562f573c43fe70829a38f809a57ac"
    \o "6890b943cdd2ff13632e217cc420cdd2fdc835ba964fc056d3ed6426df241de1"
    \o "31466cb4325b1d49bea89bef0d47a758fc3bf6bfa4fa675166b9deaacfa0cf20"
    \o "d7855d299634578d3c361253d83b412496b721da01181ec61ab23d461bc25ae2"
    \o "bb9d709794f6372df9b6ae780b3fc44c9f79210c1db53c8e9cc82f6fc8a277aa"
    \o "c6ed841527acaf72b231636cb4fd4c1057daf00c5c77ea9c62f9b2ecc6f2a5ce"
    \o "88a4f4fce9a9786c6afba6c2a2137259fabe5087e08dbd586bcd3ca9def68492"

Tape5 ==
    "94b5cbfdbae80d7cf3a0e2157d3681930b3642edc62cc12997220fd03c3ff2d2"
    \o "45f38eaa32ffb3ffe640562e24154d9909ab5145d47b5277b204ff0fb5d608c6"
    \o "569d070b29ff31c3edf7585e84c719bcc5d406ff135895e254eb814a542c1a2b"
    \o "b4f72b01f98e603b95d47a620fea0c75d32fb9f2aec6126520d6427ef9d2f87f"
    \o "7bb574476e216df8f2ae7d521748c8d851ccc5b9a0c458ba4d74cfbb4ff5a29d"
    \o "078c45a474d8aac554a5bfd65ed2ddb7f5f5828f23d5ed74b1bab629ce98ae64"
    \o "98cda4bf032979a23ca2ab0f7f320e215f273806756a91933be5056f4d6d1bd8"
    \o "5f089414885f94f5d266d9a857229697f3f2915dea06159e9825aee9666f3747"
    \o "fb66fde2994bf474605ff47e42701a9f7340c2d6078843e7c0374d2bf4479f78"
    \o "ad9ebe10c2448b594b80755abd9200487ae1ea8306cc699bbfaa7ded676adb3e"
    \o "47dc14d0bc694ac7e4227b8e7f582698c01b34d1c1af05b6f1f6b701d139adf1"
    \o "be2f4be722926c2193081a6b140991b6e920615a9775fa5e02b429aa84ef8893"
    \o "41834dc48f2c3d57b622b0a519a01d189736e77f51c808b60d2ff6ac3b11fea7"
    \o "d32b965d345e9b5c662bd5a4ca6fd5809f93b26110023307ee7ac50674ee9e65"
    \o "77132a215d6de728414d2c4a307e05ec55f0b0a77df21ca547a3bf203b093a19"
    \o "6efb5a427541bfb72c32a3f0a96bf40707ca62008dfd895f1b13ec71e70a3a07"
    \o "6c004d674a0e0ff32b8a63831e5c118fe291db390785769c68a2b0ec4b7edf38"
    \o "12471cc4d65228173b1c6f9a3407b30b3c4e5e116c56cc80e4afc29072dbacf0"
    \o "b0b641cc6825142247a54018cb80010f2d56d4ff90386253550299d2bf14892a"
    \o "b27cf6c61557e3796270cae287f79012dd6a03f00e937be567334d34885ccc35"
    \o "5c3dfaded0976522d37601261cb4ee3ccc57a7d891c36b0189992d605a094868"
    \o "78bb67fcd9eeb8a082c65f90ac8344101c599dcfb64fe04eb310c1aff4e5bcde"
    \o "b9983781e135fc866f0a662ca8e3ea95651dbe8bbf53e1344c4c91ef21a6c23a"
    \o "199adae8b6636789e346419ef52602149899263591acb5b10f72d8f153d7a6ee"
    \o "3eb9dc7d103a2115259c19c7b5dcc2bee8f9adfd151d1335527eafbc136f8760"
    \o "1f9f52a076f5fb17cfbb401c7f5cb3e5624e7abcc191465fd186036f34ab124f"
    \o "1876f28d6de31752c10dc25c00487f6d810f33fc70781f49fda780026cc86d9f"
    \o "eaa9a90306cb6cddd6ee60fdc2e524c36df1f53663427540aa1c2c711a60e6e2"
    \o "3a0bd7f5972731e5f9002c6142ca55c3248efeb81411a6545e7897fd3f924080"
    \o "b6237ab000c3638b93c40c830b6e5c084771a1ee5984b9e9f6f64d29ea1a70b3"
    \o "8961e84d85d62751709939700b115e25f54d47c2b144d0a462ac3b49ee7eed29"
    \o "290eb581070bd97ada009616b8979938fb1b1ba9101b74a8e8bd1faad416c447"
    \o "440ec58ae7762a3f45f937125f1a6798a6232e72a87e95e02649788fe383a268"
    \o "c4d54913465de847aba1fd1bc1511da4dc920cf862a5bc416d5e1414b56fd611"
    \o "4120f1cbef861761360f984a1a85e5f17612c319811afa86614487fd603e8fe2"
    \o "6aa2e35ecb81240dfa7478ec9a8442ba4776cb912937bfbc17f3232a1b7497da"
    \o "2cb7149e4a5b08b813c05997ad7dd8e94950e4286465fc24a3cfb007f24fd6a4"
    \o "6dd9a75eb885bb9cc0297a08c7c7d503807f1b32f2d83ad6a166ad3a4e03a391"
    \o "be856943b15898cc7cab0e48d0260703c3127e7ec774810ccbc997d999bedd93"
    \o "0ae7f83f1b53185e1236006043bd662cf1e6b3326e726f0478c3bbdda4c1d3e6"
    \o "cd6daea8edbb7b33594badc03d8fd25a1b965d2a42082b6f1b0b87fdde5bee17"
    \o "250f0b95ce74c97ee59f8626687fd03741d81c8731aa9511b56255dcc04aac1e"
    \o "8e1cadeaa1078e73742649791fa83e4d1941e646125af61f5d35a1751dd750af"
    \o "7bde093e4447de885881d89e76a39b6e612175e04c569f912072b40919cbe01e"
    \o "14a446a306742b58bf89d6d797d0257f5d9117e45ec5faf166d7f422bcb87542"
    \o "2f60ea6543926e98714603d3a63b7e9a80e1c84155952de0037047830e3ff5c5"
    \o "35700b1c31fb413e1a1cfeb9eed5c5462c441623bf7d0c47d3d0bbbcef836a91"
    \o "470b40721b1e3553f970dbb09f586554a3ddc9472a09933e09413336aa934db2"
    \o "3ce21999bdb973d7a4b419297c8a1aba597f8fd0408292ac464d7d99a523788a"
    \o "3b19ed0e7248034b246de41a54b193093f4ce67c41767f26aebf7f80cff69903"
    \o "8ca458a2569c9aa2e6bdbdbe399c9a04cf36778db2cc77f77a93f35bb3f211c7"
    \o "a78ac0da207b9ab2f1c0dc1d67e2f1c05cc68fa8acd5b3f2787dae850cf9507f"
    \o "0338e44f43ca37a197ee73564356051c2354c3fe5c3f41a874188a402acd1174"
    \o "c28ed355f206ea66014df8b6b1c1054872ebea25ff8d44166f80774bff7148c1"
    \o "3f61193af89683aaa788532b0019660fa7583e5e7433d7741419ef984fb60ae7"
    \o "e0a20368dd92353a1c86237fefea79cd27f2d571e741f75ae5d9efb3184aa5e4"
    \o "a80b555c2d368659466df392cbee05e01c3eb6c89e7ab16f35361906f5f35265"
    \o "4dc47523eeee0c7531a75f4142958b7ca273f67fc4ea9e90ccb9316c280ba95b"
    \o "4c0d0da85f6aaee1b83afc2b9fa54be396b229d74f96b75b4550f4a6798ca34c"
    \o "1c119196fa91d5f27e607955ca941dff8cba839f9b172eb1542ad9b3c06127c1"
    \o "3ea7b14b0198c399fa39be689741328795ea9d70a2ad6a42a06c062f59a7a776"
    \o "d35d57cfaf61eb0f8bdbe03acb87e255aea6f1546111a11ad8213efe76cd5639"
    \o "53ff31eaefa440b6ec963d95f2992037a30d0a5c47771781ad529c80ce91a095"
    \o "df1d17dedd08e397d0b36510c1b375435fe97933f3fe2e31b96a70ae4e973030"
    \o "8b6ee226ed42581b54f35ad8fab52c6b273c502faf884f4c2f1e7f11824bc540"
    \o "d7fdef3aed7ce372824dca5ae3ba6f004563519e0b7be9f5b8ad91f5cc7b76fc"
    \o "819b4da97df3f6f4fd0e1556d58f431f4c242fb13125912ed8a9e4b9bd4a6164"
    \o "6fe763cfae123f95cd383462756de6924b51852a6d1aaad9ed99618e84208a78"

Tape(seed) ==
    CASE seed = 0 -> Tape0
      [] seed = 1 -> Tape1
      [] seed = 2 -> Tape2
      [] seed = 3 -> Tape3
      [] seed = 4 -> Tape4
      [] seed = 5 -> Tape5

HexDigits == "0123456789abcdef"

HexValue(ch) == (CHOOSE i \in 1 .. 16 : SubSeq(HexDigits, i, i) = ch) - 1

\* the random module seeded with seed, no word drawn yet
Seeded(seed) == [seed |-> seed, pos |-> 0]

\* the module after one more word was drawn
Advance(x) == [x EXCEPT !.pos = x.pos + 1]

\* the next word of the module is a recorded one.  The runs that return draw
\* recorded words only; a loop that never ends goes past them.
Recorded(x) == x.pos < Len(Tape(x.seed))

\* getrandbits(k), k <= 4: the k leading bits of the next word
getrandbits(x, k) ==
    HexValue(SubSeq(Tape(x.seed), x.pos + 1, x.pos + 1)) \div (2 ^ (4 - k))

\* n.bit_length()
BitLength(n) == CHOOSE k \in 0 .. 4 : n < 2 ^ k /\ (k = 0 \/ n >= 2 ^ (k - 1))

\* _randbelow(n): r = getrandbits(k); while r >= n: r = getrandbits(k).
\* The outcome in 0..n-1 and the module after the call; past the recorded
\* words the outcome is not known (None) and the module stays as it is.
\* y is the module after the rejected word.
RECURSIVE RandBelow(_, _)
RandBelow(x, n) ==
    IF ~ Recorded(x) THEN [value |-> None, rng |-> x]
    ELSE LET r == getrandbits(x, BitLength(n))
         IN  IF r < n THEN [value |-> r, rng |-> Advance(x)]
             ELSE CHOOSE drawn \in {RandBelow(y, n) : y \in {Advance(x)}} : TRUE

Swap(xs, i, j) == [xs EXCEPT ![i] = xs[j], ![j] = xs[i]]

\* random.shuffle: for i in reversed(range(1, len(x))): j = randbelow(i + 1);
\* x[i], x[j] = x[j], x[i].  i is the 0-based index.
RECURSIVE ShuffleFrom(_, _, _)
ShuffleFrom(xs, i, x) ==
    IF i < 1 THEN [list |-> xs, rng |-> x]
    ELSE LET d == RandBelow(x, i + 1)
         IN  ShuffleFrom(Swap(xs, i + 1, d.value + 1), i - 1, d.rng)

Shuffle(xs, x) == ShuffleFrom(xs, Len(xs) - 1, x)

\* ---- SudokuGenerator: validity predicates ---------------------------------
valid_in_row(b, N, row, num) == \A c \in Idx(N) : b[row][c] # num

valid_in_col(b, N, col, num) == \A r \in Idx(N) : b[r][col] # num

valid_in_box(b, B, row_start, col_start, num) ==
    \A r \in Idx(B), c \in Idx(B) : b[row_start + r][col_start + c] # num

\* is_valid without its column test
is_valid_skips_col(b, N, B, row, col, num) ==
    /\ valid_in_row(b, N, row, num)
    /\ valid_in_box(b, B, row - (row % B), col - (col % B), num)

is_valid(b, N, B, row, col, num) ==
    /\ valid_in_row(b, N, row, num)
    /\ valid_in_col(b, N, col, num)
    /\ valid_in_box(b, B, row - (row % B), col - (col % B), num)

\* ---- SudokuGenerator: diagonal boxes --------------------------------------
UsedInBox(b, B, row_start, col_start) ==
    {b[row_start + r][col_start + c] : r \in Idx(B), c \in Idx(B)} \ {0}

unused_in_box(b, N, B, row_start, col_start) ==
    SelectSeq(RangeList(N), LAMBDA num : num \notin UsedInBox(b, B, row_start, col_start))

\* idx when the loops of fill_box reach (r, c): the zero cells before it
ZerosBefore(b, B, row_start, col_start, r, c) ==
    Cardinality({p \in Idx(B) \X Idx(B) :
                    /\ p[1] * B + p[2] < r * B + c
                    /\ b[row_start + p[1]][col_start + p[2]] = 0})

\* fill_box after the shuffle: the zero cells of the box take values[idx]
fill_box(b, N, B, row_start, col_start, values) ==
    [i \in Idx(N) |-> [j \in Idx(N) |->
        IF /\ i \in row_start .. row_start + B - 1
           /\ j \in col_start .. col_start + B - 1
           /\ b[i][j] = 0
        THEN values[ZerosBefore(b, B, row_start, col_start, i - row_start, j - col_start) + 1]
        ELSE b[i][j]]]

\* ---- SudokuGenerator.fill_remaining: position arithmetic ------------------
\* lines 83-100: the cell the call works on, or done when it returns True
FillRemainingEntry(N, B, row0, col0) ==
    LET wrap == col0 >= N /\ row0 < N - 1
        row  == IF wrap THEN row0 + 1 ELSE row0
        col  == IF wrap THEN 0 ELSE col0
    IN  IF row >= N /\ col >= N
        THEN [done |-> TRUE, row |-> row, col |-> col]
        ELSE IF row < B
        THEN [done |-> FALSE, row |-> row, col |-> IF col < B THEN B ELSE col]
        ELSE IF row < N - B
        THEN [done |-> FALSE, row |-> row,
              col |-> IF col = (row \div B) * B THEN col + B ELSE col]
        ELSE IF col = N - B
        THEN [done |-> row + 1 >= N, row |-> row + 1, col |-> 0]
        ELSE [done |-> FALSE, row |-> row, col |-> col]

\* index of the first number of the list that is_valid accepts, 0 when none
FirstValid(b, N, B, row, col, numbers) ==
    LET ok == {k \in 1 .. Len(numbers) : is_valid(b, N, B, row, col, numbers[k])}
    IN  IF ok = {} THEN 0 ELSE CHOOSE k \in ok : \A m \in ok : k <= m

\* ---- state -----------------------------------------------------------------
VARIABLES
    row_length, removed_cells, box_length,  \* SudokuGenerator fields
    gen_solution,       \* SudokuGenerator.solution: None or a grid object
    heap,               \* grid objects: GenBoard is SudokuGenerator.board
    rng,                \* hidden state of the random module
    pc,                 \* position in the generator's running operation
    stack,              \* frames of fill_remaining: row, col, numbers left, and
                        \* the board as it was when the call was entered
    args,               \* (row, col) of the fill_remaining call being made
    ret,                \* value the last fill_remaining call returned
    start,              \* loop variable of fill_diagonal
    removed,            \* local counter of remove_cells
    root_result,        \* value of fill_remaining(0, box_length) in fill_values
    last_call,          \* the operation last called and the value it returned
    solution, original_board, board,   \* Board fields: grid objects
    cells,              \* Board.cells: value, sketched_value, locked, selected
    selected,           \* Board.selected: None or (row, col)
    state,              \* main's state; "none" when there is no session
    running             \* main's running

genVars == <<row_length, removed_cells, box_length, gen_solution, heap, rng,
             pc, stack, args, ret, start, removed, root_result, last_call>>

boardVars == <<solution, original_board, board, cells, selected>>

vars == <<genVars, boardVars, state, running>>

ObjIds == {"GenBoard", "Solution", "Original", "Working"}

\* int(row_length ** 0.5)
IntSqrt(n) == CHOOSE b \in 0 .. n : b * b <= n /\ (b + 1) * (b + 1) > n

GenBoard == heap["GenBoard"]

Call(op, value) == [op |-> op, value |-> value]

\* ---- SudokuGenerator: operations --------------------------------------------
\* __init__(row_length, removed_cells), with the random module in state seed
SudokuGenerator(N, K, seed) ==
    /\ row_length' = N
    /\ removed_cells' = K
    /\ box_length' = IntSqrt(N)
    /\ heap' = [o \in ObjIds |-> IF o = "GenBoard" THEN EmptyGrid(N) ELSE NoGrid]
    /\ gen_solution' = None
    /\ rng' = Seeded(seed)
    /\ stack' = <<>>
    /\ args' = <<0, 0>>
    /\ ret' = FALSE
    /\ start' = 0
    /\ removed' = 0
    /\ root_result' = None

\* one iteration of fill_diagonal: fill_box(start, start); after the last
\* box, fill_values calls fill_remaining(0, box_length)
FillDiagonalBox ==
    /\ pc = "fill_diagonal"
    /\ LET sh == Shuffle(unused_in_box(GenBoard, row_length, box_length, start, start), rng)
       IN  /\ heap' = [heap EXCEPT !["GenBoard"] =
                         fill_box(GenBoard, row_length, box_length, start, start, sh.list)]
           /\ rng' = sh.rng
    /\ start' = start + box_length
    /\ IF start + box_length < row_length
       THEN pc' = "fill_diagonal" /\ args' = args
       ELSE pc' = "call" /\ args' = <<0, box_length>>
    /\ UNCHANGED <<row_length, removed_cells, box_length, gen_solution, stack, ret,
                   removed, root_result, last_call, boardVars, state, running>>

\* entry of fill_remaining(row, col): lines 83-103
FillRemainingCall ==
    /\ pc = "call"
    /\ LET e == FillRemainingEntry(row_length, box_length, args[1], args[2])
           sh == Shuffle(RangeList(row_length), rng)
       IN  IF e.done
           THEN /\ ret' = TRUE
                /\ pc' = "return"
                /\ UNCHANGED <<stack, rng>>
           ELSE /\ stack' = Append(stack, [row |-> e.row, col |-> e.col,
                                           numbers |-> sh.list, entry |-> GenBoard])
                /\ rng' = sh.rng
                /\ pc' = "loop"
                /\ ret' = ret
    /\ UNCHANGED <<row_length, removed_cells, box_length, gen_solution, heap, args, start,
                   removed, root_result, last_call, boardVars, state, running>>

Top == stack[Len(stack)]

Pop == SubSeq(stack, 1, Len(stack) - 1)

TopFirstValid ==
    FirstValid(GenBoard, row_length, box_length, Top.row, Top.col, Top.numbers)

\* the for loop of fill_remaining up to its next recursive call or its end:
\* the first remaining number that is_valid accepts is placed and the
\* call for the next column is made (lines 104-107); when no number is
\* left the call returns False (line 110)
FillRemainingLoop ==
    /\ pc = "loop"
    /\ LET k == TopFirstValid
       IN  IF k # 0
           THEN /\ heap' = [heap EXCEPT !["GenBoard"] =
                              SetCell(GenBoard, Top.row, Top.col, Top.numbers[k])]
                /\ stack' = [stack EXCEPT ![Len(stack)].numbers =
                              SubSeq(Top.numbers, k + 1, Len(Top.numbers))]
                /\ args' = <<Top.row, Top.col + 1>>
                /\ pc' = "call"
                /\ ret' = ret
           ELSE /\ stack' = Pop
                /\ ret' = FALSE
                /\ pc' = "return"
                /\ UNCHANGED <<heap, args>>
    /\ UNCHANGED <<row_length, removed_cells, box_length, gen_solution, rng, start,
                   removed, root_result, last_call, boardVars, state, running>>

\* line 109 left out: the caller goes on without resetting its cell
FillRemainingReturnNoUndo ==
    /\ pc = "return"
    /\ stack # <<>>
    /\ IF ret
       THEN /\ stack' = Pop
            /\ pc' = "return"
       ELSE /\ pc' = "loop"
            /\ stack' = stack
    /\ UNCHANGED <<row_length, removed_cells, box_length, gen_solution, heap, rng, args, ret,
                   start, removed, root_result, last_call, boardVars, state, running>>

\* the caller gives up at the callee's first failure instead of trying its
\* remaining numbers
FillRemainingReturnNoRetry ==
    /\ pc = "return"
    /\ stack # <<>>
    /\ heap' = IF ret THEN heap
               ELSE [heap EXCEPT !["GenBoard"] = SetCell(GenBoard, Top.row, Top.col, 0)]
    /\ stack' = Pop
    /\ pc' = "return"
    /\ UNCHANGED <<row_length, removed_cells, box_length, gen_solution, rng, args, ret,
                   start, removed, root_result, last_call, boardVars, state, running>>

\* back in the caller at line 107: return True, or undo and go on (109)
FillRemainingReturn ==
    /\ pc = "return"
    /\ stack # <<>>
    /\ IF ret
       THEN /\ stack' = Pop
            /\ pc' = "return"
            /\ heap' = heap
       ELSE /\ heap' = [heap EXCEPT !["GenBoard"] = SetCell(GenBoard, Top.row, Top.col, 0)]
            /\ pc' = "loop"
            /\ stack' = stack
    /\ UNCHANGED <<row_length, removed_cells, box_length, gen_solution, rng, args, ret,
                   start, removed, root_result, last_call, boardVars, state, running>>

\* self.solution = self.board: no copy, the board object itself
RecordSolutionAlias(h) == [ref |-> "GenBoard", heap |-> h]

\* self.solution = [row[:] for row in self.board]: a new grid object
RecordSolution(h) ==
    [ref |-> "Solution", heap |-> [h EXCEPT !["Solution"] = h["GenBoard"]]]

\* fill_values after the root call returned: its value is dropped and the
\* board is recorded (lines 114-115)
FillValuesRecord ==
    /\ pc = "return"
    /\ stack = <<>>
    /\ root_result' = PyBool(ret)
    /\ gen_solution' = RecordSolution(heap).ref
    /\ heap' = RecordSolution(heap).heap
    /\ pc' = "filled"
    /\ UNCHANGED <<row_length, removed_cells, box_length, rng, stack, args, ret, start,
                   removed, last_call, boardVars, state, running>>

\* row = random.randrange(row_length); col = random.randrange(row_length)
RandCell(x, n) ==
    CHOOSE cell \in UNION {{[row |-> r.value, col |-> c.value, rng |-> c.rng] :
                               c \in {RandBelow(r.rng, n)}} : r \in {RandBelow(x, n)}} : TRUE

\* the cells the two calls can give: the one the recorded words give, any
\* cell past them
RandCells(x, n) ==
    UNION {IF Recorded(cell.rng) THEN {cell}
           ELSE {[row |-> row, col |-> col, rng |-> cell.rng] : row \in Idx(n), col \in Idx(n)} :
           cell \in {RandCell(x, n)}}

\* removed += 1 when the picked cell was nonzero (lines 122-124)
RemovedAfterPick(n, v) == IF v # 0 THEN n + 1 ELSE n

\* one iteration of the while loop of remove_cells
RemoveCellsPick ==
    /\ pc = "remove_cells"
    /\ removed < removed_cells
    /\ \E cell \in RandCells(rng, row_length) :
          /\ heap' = [heap EXCEPT !["GenBoard"] =
                        IF GenBoard[cell.row][cell.col] # 0
                        THEN SetCell(GenBoard, cell.row, cell.col, 0)
                        ELSE GenBoard]
          /\ removed' = RemovedAfterPick(removed, GenBoard[cell.row][cell.col])
          /\ rng' = cell.rng
    /\ UNCHANGED <<row_length, removed_cells, box_length, gen_solution, pc, stack, args,
                   ret, start, root_result, last_call, boardVars, state, running>>

\* the while condition fails: remove_cells returns
RemoveCellsReturn ==
    /\ pc = "remove_cells"
    /\ removed >= removed_cells
    /\ pc' = "removed"
    /\ UNCHANGED <<row_length, removed_cells, box_length, gen_solution, heap, rng, stack,
                   args, ret, start, removed, root_result, last_call, boardVars, state, running>>

GeneratorStep ==
    \/ FillDiagonalBox
    \/ FillRemainingCall
    \/ FillRemainingLoop
    \/ FillRemainingReturn
    \/ FillValuesRecord
    \/ RemoveCellsPick
    \/ RemoveCellsReturn

\* ---- a client of the generator (generate_sudoku) ----------------------------
RemovalCounts(N) == (0 .. MaxRemoved) \cup {N * N}

\* generator = SudokuGenerator(size, removed)
NewGenerator ==
    /\ state = "none"
    /\ pc = "none"
    /\ \E N \in Sizes : \E K \in RemovalCounts(N) : \E seed \in 0 .. MaxSeed :
          SudokuGenerator(N, K, seed)
    /\ pc' = "new"
    /\ last_call' = Call("SudokuGenerator", None)
    /\ UNCHANGED <<boardVars, state, running>>

\* generator.fill_values()
FillValues ==
    /\ state = "none"
    /\ pc = "new"
    /\ pc' = "fill_diagonal"
    /\ start' = 0
    /\ last_call' = Call("fill_values", None)
    /\ UNCHANGED <<row_length, removed_cells, box_length, gen_solution, heap, rng, stack,
                   args, ret, removed, root_result, boardVars, state, running>>

\* get_solution without the None test
get_solution_unchecked(sol) == sol

\* get_solution: the grid object, or ValueError raised
get_solution(sol) == IF sol = None THEN "ValueError" ELSE sol

\* a get_solution call between the operations
GetSolution ==
    /\ state = "none"
    /\ pc \in {"new", "filled", "removed"}
    /\ last_call' = Call("get_solution", get_solution(gen_solution))
    /\ UNCHANGED <<row_length, removed_cells, box_length, gen_solution, heap, rng, pc,
                   stack, args, ret, start, removed, root_result, boardVars, state, running>>

\* generator.remove_cells()
RemoveCells ==
    /\ state = "none"
    /\ pc = "filled"
    /\ pc' = "remove_cells"
    /\ removed' = 0
    /\ last_call' = Call("remove_cells", None)
    /\ UNCHANGED <<row_length, removed_cells, box_length, gen_solution, heap, rng, stack,
                   args, ret, start, root_result, boardVars, state, running>>

\* nothing is constructed yet
NothingConstructed ==
    /\ row_length = 0
    /\ removed_cells = 0
    /\ box_length = 0
    /\ gen_solution = None
    /\ heap = [o \in ObjIds |-> NoGrid]
    /\ rng = Seeded(0)
    /\ pc = "none"
    /\ stack = <<>>
    /\ args = <<0, 0>>
    /\ ret = FALSE
    /\ start = 0
    /\ removed = 0
    /\ root_result = None
    /\ last_call = Call("none", None)
    /\ solution = None
    /\ original_board = None
    /\ board = None
    /\ cells = <<>>
    /\ selected = NoSelection

Init == NothingConstructed /\ state = "none" /\ running = FALSE

Next ==
    \/ NewGenerator
    \/ FillValues
    \/ GetSolution
    \/ RemoveCells
    \/ GeneratorStep

Spec == Init /\ [][Next]_vars

\* ---- Board --------------------------------------------------------------------
\* SudokuGenerator(9, removed): the side of the Board's grid
BoardSide == 9

DIFFICULTY_TO_REMOVED == [easy |-> 30, medium |-> 40, hard |-> 50]

\* the default of DIFFICULTY_TO_REMOVED.get
DefaultRemoved == 40

\* difficulty strings a Board is constructed with (BoardSpec)
Difficulties == {"easy", "Medium", "HARD", "expert"}

UpperCase == "ABCDEFGHIJKLMNOPQRSTUVWXYZ"

LowerCase == "abcdefghijklmnopqrstuvwxyz"

\* str.lower() of one character: the letters A..Z change
LowerChar(ch) ==
    LET at == {i \in 1 .. Len(UpperCase) : SubSeq(UpperCase, i, i) = ch}
    IN  IF at = {} THEN ch
        ELSE LET i == CHOOSE i \in at : TRUE IN SubSeq(LowerCase, i, i)

\* difficulty.lower()
RECURSIVE Lower(_)
Lower(d) ==
    IF Len(d) = 0 THEN d
    ELSE LowerChar(SubSeq(d, 1, 1)) \o Lower(SubSeq(d, 2, Len(d)))

\* DIFFICULTY_TO_REMOVED.get(self.difficulty, 40)
RemovedFor(d) ==
    IF Lower(d) \in DOMAIN DIFFICULTY_TO_REMOVED THEN DIFFICULTY_TO_REMOVED[Lower(d)]
    ELSE DefaultRemoved

Min(a, b) == IF a < b THEN a ELSE b

Max(a, b) == IF a > b THEN a ELSE b

\* ---- Board: geometry ------------------------------------------------------------
\* the window main creates the Board with
WIDTH == 800

HEIGHT == 900

GRID_MARGIN_TOP == 100

GRID_MARGIN_SIDE == 40

usable_width == Max(360, WIDTH - 2 * GRID_MARGIN_SIDE)

usable_height == Max(360, HEIGHT - GRID_MARGIN_TOP - 160)

grid_pixels == Min(540, Min(usable_width, usable_height))

cell_size == grid_pixels \div 9

\* self.origin: (start_x, start_y)
origin == <<(WIDTH - grid_pixels) \div 2, GRID_MARGIN_TOP>>

\* Board.click: (row, col) of the pixel, or None outside the grid.  Both
\* bounds of the grid are inclusive, so a pixel on its right or bottom
\* edge gives column or row 9.
click(x, y) ==
    IF /\ origin[1] <= x /\ x <= origin[1] + grid_pixels
       /\ origin[2] <= y /\ y <= origin[2] + grid_pixels
    THEN <<(y - origin[2]) \div cell_size, (x - origin[1]) \div cell_size>>
    ELSE NoSelection

\* ---- Board: cells ---------------------------------------------------------------
\* Cell.__init__
Cell(value, locked) ==
    [value |-> value, sketched_value |-> 0, locked |-> locked, selected |-> FALSE]

\* Cell.set_cell_value
set_cell_value(cell, value) ==
    [cell EXCEPT !.value = value,
                 !.sketched_value = IF value # 0 THEN 0 ELSE cell.sketched_value]

\* Cell.set_sketched_value
set_sketched_value(cell, value) == [cell EXCEPT !.sketched_value = value]

\* the Board object: its fields and the grid objects they refer to
Self ==
    [cells |-> cells, selected |-> selected, heap |-> heap, board |-> board,
     original_board |-> original_board, solution |-> solution]

Becomes(bd) ==
    /\ cells' = bd.cells
    /\ selected' = bd.selected
    /\ heap' = bd.heap
    /\ board' = bd.board
    /\ original_board' = bd.original_board
    /\ solution' = bd.solution

\* a Python list of BoardSide items accepts the indices -BoardSide..BoardSide-1
InRange(i) == - BoardSide <= i /\ i < BoardSide

\* the position a list index stands for: a negative one counts from the end
PyIndex(i) == IF i < 0 THEN i + BoardSide ELSE i

\* row, col = self.selected, as positions of the grid
SelectedRow(bd) == PyIndex(bd.selected[1])

SelectedCol(bd) == PyIndex(bd.selected[2])

\* self.board[row][col] = value
WriteBoard(bd, row, col, value) ==
    [bd.heap EXCEPT ![bd.board] = SetCell(bd.heap[bd.board], row, col, value)]

Original(bd, row, col) == bd.heap[bd.original_board][row][col]

clear_selection(bd) ==
    [bd EXCEPT !.cells = [r \in Idx(BoardSide) |-> [c \in Idx(BoardSide) |->
                            [bd.cells[r][c] EXCEPT !.selected = FALSE]]]]

\* what select(row, col) raises: self.cells[row][col] is a list access
select_raises(row, col) ==
    IF InRange(row) /\ InRange(col) THEN None ELSE "IndexError"

\* select: the flags are cleared first; with an index out of range the
\* call ends there, self.selected as it was
select(bd, row, col) ==
    IF select_raises(row, col) # None THEN clear_selection(bd)
    ELSE [clear_selection(bd) EXCEPT !.cells[PyIndex(row)][PyIndex(col)].selected = TRUE,
                                     !.selected = <<row, col>>]

\* move_selection: the target is clamped to 0..8
move_selection(bd, d_row, d_col) ==
    IF bd.selected = NoSelection THEN select(bd, 0, 0)
    ELSE select(bd, Max(0, Min(8, bd.selected[1] + d_row)),
                    Max(0, Min(8, bd.selected[2] + d_col)))

clear(bd) ==
    IF bd.selected = NoSelection THEN bd
    ELSE LET row == SelectedRow(bd)
             col == SelectedCol(bd)
         IN  IF Original(bd, row, col) = 0
             THEN [bd EXCEPT !.cells[row][col] =
                                set_sketched_value(set_cell_value(bd.cells[row][col], 0), 0),
                             !.heap = WriteBoard(bd, row, col, 0)]
             ELSE bd

sketch(bd, value) ==
    IF bd.selected = NoSelection THEN bd
    ELSE LET row == SelectedRow(bd)
             col == SelectedCol(bd)
         IN  IF Original(bd, row, col) # 0 THEN bd
             ELSE [bd EXCEPT !.cells[row][col] =
                                set_sketched_value(bd.cells[row][col], value)]

\* commit_sketched_value writing the Cell and leaving board as it was
commit_cell_only(bd) ==
    IF bd.selected = NoSelection THEN bd
    ELSE LET row == SelectedRow(bd)
             col == SelectedCol(bd)
         IN  IF Original(bd, row, col) # 0 THEN bd
             ELSE IF bd.cells[row][col].sketched_value # 0
             THEN [bd EXCEPT !.cells[row][col] =
                     set_cell_value(bd.cells[row][col], bd.cells[row][col].sketched_value)]
             ELSE bd

\* place_number without the test of original_board (lines 157-158)
place_number_unguarded(bd, value) ==
    IF bd.selected = NoSelection THEN bd
    ELSE LET row == SelectedRow(bd)
             col == SelectedCol(bd)
         IN  [bd EXCEPT !.cells[row][col] = set_cell_value(bd.cells[row][col], value),
                        !.heap = WriteBoard(bd, row, col, value)]

place_number(bd, value) ==
    IF bd.selected = NoSelection THEN bd
    ELSE LET row == SelectedRow(bd)
             col == SelectedCol(bd)
         IN  IF Original(bd, row, col) # 0 THEN bd
             ELSE [bd EXCEPT !.cells[row][col] =
                                set_cell_value(bd.cells[row][col], value),
                             !.heap = WriteBoard(bd, row, col, value)]

commit_sketched_value(bd) ==
    IF bd.selected = NoSelection THEN bd
    ELSE LET row == SelectedRow(bd)
             col == SelectedCol(bd)
         IN  IF Original(bd, row, col) # 0 THEN bd
             ELSE IF bd.cells[row][col].sketched_value # 0
             THEN place_number(bd, bd.cells[row][col].sketched_value)
             ELSE bd

\* reset_to_original that restores the values and keeps the sketches
reset_keeps_sketches(bd) ==
    [clear_selection(bd) EXCEPT
        !.cells = [r \in Idx(BoardSide) |-> [c \in Idx(BoardSide) |->
                     [set_cell_value(bd.cells[r][c], Original(bd, r, c))
                        EXCEPT !.selected = FALSE]]],
        !.heap = [bd.heap EXCEPT ![bd.board] =
                     [r \in Idx(BoardSide) |-> [c \in Idx(BoardSide) |-> Original(bd, r, c)]]],
        !.selected = NoSelection]

reset_to_original(bd) ==
    [clear_selection(bd) EXCEPT
        !.cells = [r \in Idx(BoardSide) |-> [c \in Idx(BoardSide) |->
                     [set_sketched_value(set_cell_value(bd.cells[r][c], Original(bd, r, c)), 0)
                        EXCEPT !.selected = FALSE]]],
        !.heap = [bd.heap EXCEPT ![bd.board] =
                     [r \in Idx(BoardSide) |-> [c \in Idx(BoardSide) |-> Original(bd, r, c)]]],
        !.selected = NoSelection]

\* is_full and find_empty read the cells and change nothing
is_full(bd) == \A r \in Idx(BoardSide), c \in Idx(BoardSide) : bd.cells[r][c].value # 0

\* self.board = [[cell.value for cell in row] for row in self.cells]
update_board(bd) ==
    [bd EXCEPT !.board = "Working",
               !.heap = [bd.heap EXCEPT !["Working"] =
                           [r \in Idx(BoardSide) |-> [c \in Idx(BoardSide) |->
                               bd.cells[r][c].value]]]]

\* for r in range(9): for c in range(9): the first cell from position k on
\* that is in S, None when there is none
RECURSIVE FirstFrom(_, _)
FirstFrom(S, k) ==
    IF k >= BoardSide * BoardSide THEN NoSelection
    ELSE IF <<k \div BoardSide, k % BoardSide>> \in S THEN <<k \div BoardSide, k % BoardSide>>
    ELSE FirstFrom(S, k + 1)

\* the first cell of a set in row-major order, None when it is empty
FirstCell(S) == FirstFrom(S, 0)

\* the first empty cell in row-major order, or None
find_empty(bd) ==
    FirstCell({p \in Idx(BoardSide) \X Idx(BoardSide) : bd.cells[p[1]][p[2]].value = 0})

\* the loops of check_board over the board it is given
BoardMatches(bd, against) ==
    ~ \E r \in Idx(BoardSide), c \in Idx(BoardSide) :
          bd.heap[bd.board][r][c] # bd.heap[against][r][c]

\* check_board comparing with original_board instead of solution
check_board_against_original(bd) == BoardMatches(update_board(bd), bd.original_board)

\* the value check_board returns (the board is update_board(bd) afterwards)
check_board(bd) == BoardMatches(update_board(bd), bd.solution)

\* lines 44-46: original_board and board are two copies of the puzzle
BoardGrids(h) ==
    [original_board |-> "Original", board |-> "Working",
     heap |-> [h EXCEPT !["Original"] = h["GenBoard"], !["Working"] = h["GenBoard"]]]

\* ---- a client of Board ----------------------------------------------------------
\* Board.__init__ up to generator.fill_values() (lines 37-41)
NewBoard ==
    /\ pc = "none"
    /\ \E d \in Difficulties : \E seed \in 1 .. MaxGameSeed :
          SudokuGenerator(9, RemovedFor(d), seed)
    /\ pc' = "fill_diagonal"
    /\ last_call' = Call("Board", None)
    /\ UNCHANGED <<boardVars, state, running>>

\* self.solution = self.generator.get_solution(); then remove_cells is called
BoardInitSolution ==
    /\ pc = "filled"
    /\ solution' = get_solution(gen_solution)
    /\ pc' = "remove_cells"
    /\ removed' = 0
    /\ UNCHANGED <<row_length, removed_cells, box_length, gen_solution, heap, rng, stack,
                   args, ret, start, root_result, last_call, original_board, board, cells,
                   selected, state, running>>

\* the rest of Board.__init__ (lines 44-78)
BoardInitRest ==
    /\ pc = "removed"
    /\ LET g == BoardGrids(heap)
       IN  /\ heap' = g.heap
           /\ original_board' = g.original_board
           /\ board' = g.board
           /\ cells' = [r \in Idx(9) |-> [c \in Idx(9) |->
                          Cell(GenBoard[r][c], g.heap[g.original_board][r][c] # 0)]]
    /\ selected' = NoSelection
    /\ pc' = "ready"
    /\ UNCHANGED <<row_length, removed_cells, box_length, gen_solution, rng, stack, args,
                   ret, start, removed, root_result, last_call, solution>>

BoardInitFinish == BoardInitRest /\ UNCHANGED <<state, running>>

genFrame == <<row_length, removed_cells, box_length, gen_solution, rng, pc, stack, args,
              ret, start, removed, root_result, state, running>>

\* ---- bounds on the one who plays ------------------------------------------------
\* A puzzle has 30 to 50 blanks.  The one who plays aims at two cells: the
\* first empty cell in row-major order (once no cell is empty, the last
\* blank of the puzzle) and the first given cell.  These are the cells
\* selected directly, and arrow moves start from one of them or from no
\* selection.  Every call is made on its own, with whatever cell is
\* selected; an edit is explored when it keeps the blanks filled in
\* row-major order (InOrder).  The digit entered at a blank is the
\* solution's; at the last blank of the puzzle it is the solution's or the
\* next one.
AllCells == Idx(BoardSide) \X Idx(BoardSide)

Blanks(bd) == {p \in AllCells : Original(bd, p[1], p[2]) = 0}

RECURSIVE LastFrom(_, _)
LastFrom(S, k) ==
    IF k < 0 THEN NoSelection
    ELSE IF <<k \div BoardSide, k % BoardSide>> \in S THEN <<k \div BoardSide, k % BoardSide>>
    ELSE LastFrom(S, k - 1)

\* the last cell of a set in row-major order, None when it is empty
LastCell(S) == LastFrom(S, BoardSide * BoardSide - 1)

\* the blank aimed at: the first empty cell, the last blank on a full Board
Front(bd) == IF find_empty(bd) = NoSelection THEN LastCell(Blanks(bd)) ELSE find_empty(bd)

Aimed(bd) == {Front(bd), FirstCell(AllCells \ Blanks(bd))} \ {NoSelection}

\* nothing is selected, or an aimed cell is
AtAimed(bd) ==
    IF bd.selected = NoSelection THEN TRUE
    ELSE <<SelectedRow(bd), SelectedCol(bd)>> \in Aimed(bd)

SolutionAt(bd, p) == bd.heap[bd.solution][p[1]][p[2]]

\* the digits entered at the selected cell: the solution's and, at the last
\* blank of the puzzle, the next one
Entered(bd) ==
    IF bd.selected = NoSelection THEN {1}
    ELSE LET p == <<SelectedRow(bd), SelectedCol(bd)>>
             s == SolutionAt(bd, p)
         IN  IF p = LastCell(Blanks(bd)) THEN {s, (s % 9) + 1} ELSE {s}

\* the blanks are filled in row-major order: a blank before the first empty
\* cell holds the solution's digit, a blank after it is empty, and no blank
\* but the first empty one carries a sketch; the last blank of the puzzle
\* holds anything
InOrder(bd) ==
    \A f \in {find_empty(bd)}, blanks \in {Blanks(bd)} :
        \A p \in blanks \ {LastCell(blanks)} :
            /\ bd.cells[p[1]][p[2]].value \in {0, SolutionAt(bd, p)}
            /\ p # f => bd.cells[p[1]][p[2]].sketched_value = 0
            /\ (bd.cells[p[1]][p[2]].value # 0 /\ f # NoSelection) =>
                   p[1] * BoardSide + p[2] < f[1] * BoardSide + f[2]

\* a method of the Board is called and returns; last_call records its name,
\* the value it returned or the exception it raised, and the fields of the
\* Board it changed (heap: a grid the Board refers to)
BoardCall(op, value, bd) ==
    /\ pc = "ready"
    /\ Becomes(bd)
    /\ last_call' = [op |-> op, value |-> value, changed |-> {f \in DOMAIN Self : bd[f] # Self[f]}]
    /\ UNCHANGED genFrame

\* select at an aimed cell, or with an index past the grid
DoSelect ==
    /\ pc = "ready"
    /\ \E p \in Aimed(Self) \cup {<<0, BoardSide>>, <<BoardSide, 0>>} :
          BoardCall("select", select_raises(p[1], p[2]), select(Self, p[1], p[2]))

DoMoveSelection ==
    /\ pc = "ready"
    /\ AtAimed(Self)
    /\ \E d \in {<<-1, 0>>, <<1, 0>>, <<0, -1>>, <<0, 1>>} :
          BoardCall("move_selection", None, move_selection(Self, d[1], d[2]))

DoClear ==
    /\ pc = "ready"
    /\ \E bd \in {clear(Self)} : InOrder(bd) /\ BoardCall("clear", None, bd)

DoSketch ==
    /\ pc = "ready"
    /\ \E value \in Entered(Self) : \E bd \in {sketch(Self, value)} :
          InOrder(bd) /\ BoardCall("sketch", None, bd)

DoPlaceNumber ==
    /\ pc = "ready"
    /\ \E value \in Entered(Self) \cup {0} : \E bd \in {place_number(Self, value)} :
          InOrder(bd) /\ BoardCall("place_number", None, bd)

DoCommit ==
    /\ pc = "ready"
    /\ BoardCall("commit_sketched_value", None, commit_sketched_value(Self))

DoReset == pc = "ready" /\ BoardCall("reset_to_original", None, reset_to_original(Self))

DoCheckBoard == pc = "ready" /\ BoardCall("check_board", PyBool(check_board(Self)), update_board(Self))

BoardNext ==
    \/ NewBoard
    \/ GeneratorStep
    \/ BoardInitSolution
    \/ BoardInitFinish
    \/ DoSelect
    \/ DoMoveSelection
    \/ DoClear
    \/ DoSketch
    \/ DoPlaceNumber
    \/ DoCommit
    \/ DoReset
    \/ DoCheckBoard

BoardSpec == Init /\ [][BoardNext]_vars

\* ---- the session of sudoku.main ----------------------------------------------
\* One action per handled event.  The start click runs Board.__init__, whose
\* generator steps are the shared ones; state becomes "playing" when the
\* constructor has returned.  running = False leaves the handlers as they
\* are: the events that pygame.event.get() returned with the closing one are
\* still handled, then the while loop ends (pc = "exited").  An exception a
\* handler does not catch ends main (pc = "raised", last_call naming it).
Rect(x, y, w, h) == [x |-> x, y |-> y, w |-> w, h |-> h]

\* pygame.Rect.collidepoint: the right and bottom edges are outside
collidepoint(rect, pos) ==
    /\ rect.x <= pos[1] /\ pos[1] < rect.x + rect.w
    /\ rect.y <= pos[2] /\ pos[2] < rect.y + rect.h

Button(value, rect) == [value |-> value, rect |-> rect]

\* create_start_buttons
start_buttons ==
    [idx \in 1 .. 3 |->
        Button(<<"easy", "medium", "hard">>[idx],
               Rect(WIDTH \div 2 - 120, 360 + (idx - 1) * 90, 240, 62))]

\* create_control_buttons: the value is label.lower()
control_buttons ==
    [idx \in 1 .. 3 |->
        Button(Lower(<<"Reset", "Restart", "Exit">>[idx]),
               Rect(WIDTH \div 2 - 160 + (idx - 1) * 160, HEIGHT - 110, 120, 50))]

\* create_end_buttons
end_buttons ==
    <<Button("restart", Rect(WIDTH \div 2 - 150, HEIGHT \div 2, 150, 55)),
      Button("exit", Rect(WIDTH \div 2 + 20, HEIGHT \div 2, 130, 55))>>

\* the value of the first button of the list that is_clicked(pos), or None
Clicked(buttons, pos) ==
    LET hit == {i \in DOMAIN buttons : collidepoint(buttons[i].rect, pos)}
    IN  IF hit = {} THEN None
        ELSE buttons[CHOOSE i \in hit : \A j \in hit : i <= j].value

Centre(rect) == <<rect.x + rect.w \div 2, rect.y + rect.h \div 2>>

\* the pixel in the middle of cell p = (row, col)
CellCentre(p) ==
    <<origin[1] + p[2] * cell_size + cell_size \div 2,
      origin[2] + p[1] * cell_size + cell_size \div 2>>

\* event.pos of the clicks: the middle of every button, a pixel on the right
\* edge and one on the bottom edge of the grid, a pixel outside everything
FixedClicks ==
    {Centre(start_buttons[i].rect) : i \in DOMAIN start_buttons}
    \cup {Centre(control_buttons[i].rect) : i \in DOMAIN control_buttons}
    \cup {Centre(end_buttons[i].rect) : i \in DOMAIN end_buttons}
    \cup {<<origin[1] + grid_pixels, origin[2]>>, <<origin[1], origin[2] + grid_pixels>>,
          <<0, 0>>}

\* and, with a Board, the middle of every aimed cell
Clicks == FixedClicks \cup (IF pc = "ready" THEN {CellCentre(p) : p \in Aimed(Self)} ELSE {})

\* event.unicode is modelled as the code point of its character.
\* The code points of the digits 0 of Unicode (database 14.0.0, the one of the
\* interpreter), each the first of ten consecutive decimal digits 0..9: ASCII,
\* Arabic-Indic, Extended Arabic-Indic, NKo, Devanagari, ..., Fullwidth, ...,
\* the five mathematical families, ..., Segmented
DecimalZeros ==
    {48, 1632, 1776, 1984, 2406, 2534, 2662, 2790, 2918, 3046, 3174, 3302,
     3430, 3558, 3664, 3792, 3872, 4160, 4240, 6112, 6160, 6470, 6608, 6784,
     6800, 6992, 7088, 7232, 7248, 42528, 43216, 43264, 43472, 43504, 43600,
     44016, 65296, 66720, 68912, 69734, 69872, 69942, 70096, 70384, 70736,
     70864, 71248, 71360, 71472, 71904, 72016, 72784, 73040, 73120, 92768,
     92864, 93008, 120782, 120792, 120802, 120812, 120822, 123200, 123632,
     125264, 130032}

\* the ranges of the digits that are no decimal digits: superscripts, Ethiopic,
\* New Tai Lue tham 1, subscripts, circled, parenthesized, full stop, negative
\* and dingbat digits, Kharoshthi, Rumi, Brahmi, digit 0 with a full stop and
\* the digits with a comma
DigitOnlyRanges ==
    {<<178, 179>>, <<185, 185>>, <<4969, 4977>>, <<6618, 6618>>,
     <<8304, 8304>>, <<8308, 8313>>, <<8320, 8329>>, <<9312, 9320>>,
     <<9332, 9340>>, <<9352, 9360>>, <<9450, 9450>>, <<9461, 9469>>,
     <<9471, 9471>>,
     <<10102, 10110>>, <<10112, 10120>>, <<10122, 10130>>, <<68160, 68163>>,
     <<69216, 69224>>, <<69714, 69722>>, <<127232, 127242>>}

\* str.isdecimal(): the characters int() reads as a number
isdecimal(u) == \E z \in DecimalZeros : z <= u /\ u <= z + 9

\* str.isdigit(): the decimal digits and the digits that are no decimals
isdigit(u) == isdecimal(u) \/ \E r \in DigitOnlyRanges : r[1] <= u /\ u <= r[2]

\* int(event.unicode): the value of a decimal digit, ValueError otherwise
int(u) ==
    IF isdecimal(u) THEN u - (CHOOSE z \in DecimalZeros : z <= u /\ u <= z + 9)
    ELSE "ValueError"

\* the digits 0 of the scripts typed: ASCII, Arabic-Indic, Extended
\* Arabic-Indic, Devanagari, Fullwidth, mathematical monospace, Segmented
TypedZeros == {48, 1632, 1776, 2406, 65296, 120822, 130032}

\* the characters typed: in each of these scripts the entered digits and 0;
\* digits that are no decimals (superscript 2 and 0, subscript 1, circled 1,
\* Kharoshthi 4, digit 0 with a comma); a letter and the characters next to
\* the ASCII digits
Typed(bd) ==
    {z + v : z \in TypedZeros, v \in Entered(bd) \cup {0}}
    \cup {178, 8304, 8321, 9312, 68163, 127233}
    \cup {97, 47, 58}

GameInit == NothingConstructed /\ state = "start" /\ running = TRUE

\* no handler runs inside another, and none after main has ended
Idle == pc \in {"none", "ready"}

\* a start button is clicked: Board(WIDTH, HEIGHT, screen, difficulty) begins
StartClick ==
    /\ state = "start"
    /\ pc = "none"
    /\ \E pos \in Clicks : \E seed \in 1 .. MaxGameSeed :
          /\ Clicked(start_buttons, pos) # None
          /\ SudokuGenerator(9, RemovedFor(Clicked(start_buttons, pos)), seed)
    /\ pc' = "fill_diagonal"
    /\ UNCHANGED <<boardVars, last_call, state, running>>

\* the constructor returns into the handler: state = "playing"
StartPlaying ==
    /\ state = "start"
    /\ BoardInitRest
    /\ state' = "playing"
    /\ UNCHANGED running

sessionFrame == <<row_length, removed_cells, box_length, gen_solution, rng, pc, stack, args,
                  ret, start, removed, root_result, last_call, running>>

\* a handler of the playing state leaves the Board as bd and state as st
Handled(bd, st) ==
    /\ state = "playing"
    /\ pc = "ready"
    /\ Becomes(bd)
    /\ state' = st
    /\ UNCHANGED sessionFrame

\* a handler of the playing state raises: main ends, the Board left as bd
Raised(bd, exception) ==
    /\ state = "playing"
    /\ pc = "ready"
    /\ Becomes(bd)
    /\ pc' = "raised"
    /\ last_call' = Call("main", exception)
    /\ UNCHANGED <<row_length, removed_cells, box_length, gen_solution, rng, stack, args,
                   ret, start, removed, root_result, state, running>>

\* board = None; state = "start": the Board and its generator are dropped
DropBoard ==
    /\ row_length' = 0
    /\ removed_cells' = 0
    /\ box_length' = 0
    /\ gen_solution' = None
    /\ heap' = [o \in ObjIds |-> NoGrid]
    /\ pc' = "none"
    /\ stack' = <<>>
    /\ args' = <<0, 0>>
    /\ ret' = FALSE
    /\ start' = 0
    /\ removed' = 0
    /\ root_result' = None
    /\ solution' = None
    /\ original_board' = None
    /\ board' = None
    /\ cells' = <<>>
    /\ selected' = NoSelection
    /\ state' = "start"
    /\ UNCHANGED <<rng, last_call, running>>

\* a click on a control button of the playing screen
ControlClicked(value) ==
    /\ state = "playing"
    /\ pc = "ready"
    /\ \E pos \in Clicks : Clicked(control_buttons, pos) = value

ResetClick == ControlClicked("reset") /\ Handled(reset_to_original(Self), "playing")

\* the Restart button, and the Escape key
RestartClick == ControlClicked("restart") /\ DropBoard

KeyEscape == state = "playing" /\ pc = "ready" /\ DropBoard

\* a click on no control button: board.click, and select when it gives a cell
CellClick ==
    /\ state = "playing"
    /\ pc = "ready"
    /\ \E pos \in Clicks :
          /\ Clicked(control_buttons, pos) = None
          /\ LET cell_pos == click(pos[1], pos[2])
             IN  IF cell_pos = NoSelection THEN Handled(Self, "playing")
                 ELSE IF select_raises(cell_pos[1], cell_pos[2]) # None
                 THEN Raised(select(Self, cell_pos[1], cell_pos[2]),
                             select_raises(cell_pos[1], cell_pos[2]))
                 ELSE Handled(select(Self, cell_pos[1], cell_pos[2]), "playing")

KeyClear ==
    /\ state = "playing"
    /\ pc = "ready"
    /\ \E bd \in {clear(Self)} : InOrder(bd) /\ Handled(bd, "playing")

\* Return judging only a solved board: a full board that is wrong stays
\* in play
StateAfterReturnOnlyWins(bd) ==
    IF is_full(bd) /\ check_board(bd) THEN "win" ELSE "playing"

\* Return judging a full board as won whatever it holds
StateAfterReturnAlwaysWin(bd) == IF is_full(bd) THEN "win" ELSE "playing"

\* the state the Return handler leaves: it judges a board that is full
\* after the commit
StateAfterReturn(bd) ==
    IF is_full(bd) THEN (IF check_board(bd) THEN "win" ELSE "lose") ELSE "playing"

\* the Board after the Return handler: check_board rebuilds board
BoardAfterReturn(bd) == IF is_full(bd) THEN update_board(bd) ELSE bd

KeyReturn ==
    /\ state = "playing"
    /\ pc = "ready"
    /\ LET bd == commit_sketched_value(Self)
       IN  Handled(BoardAfterReturn(bd), StateAfterReturn(bd))

KeyArrow ==
    /\ state = "playing"
    /\ pc = "ready"
    /\ AtAimed(Self)
    /\ \E d \in {<<-1, 0>>, <<1, 0>>, <<0, -1>>, <<0, 1>>} :
          Handled(move_selection(Self, d[1], d[2]), "playing")

\* a key with no branch of its own: a digit 1..9 is sketched
KeyDigit ==
    /\ state = "playing"
    /\ pc = "ready"
    /\ \E u \in Typed(Self) :
          IF ~ isdigit(u) THEN Handled(Self, "playing")
          ELSE IF ~ isdecimal(u) THEN Raised(Self, int(u))
          ELSE IF 1 <= int(u) /\ int(u) <= 9
          THEN \E bd \in {sketch(Self, int(u))} : InOrder(bd) /\ Handled(bd, "playing")
          ELSE Handled(Self, "playing")

\* a click on an end button
EndClicked(value) ==
    /\ state \in {"win", "lose"}
    /\ pc = "ready"
    /\ \E pos \in Clicks : Clicked(end_buttons, pos) = value

\* Play Again on the end screen
EndRestartClick == EndClicked("restart") /\ DropBoard

\* the window is closed (QUIT, in any state): running = False
Quit ==
    /\ Idle
    /\ running' = FALSE
    /\ UNCHANGED <<row_length, removed_cells, box_length, gen_solution, heap, rng, pc, stack,
                   args, ret, start, removed, root_result, last_call, boardVars, state>>

\* an Exit button is clicked: running = False
Exit ==
    /\ ControlClicked("exit") \/ EndClicked("exit")
    /\ running' = FALSE
    /\ UNCHANGED <<row_length, removed_cells, box_length, gen_solution, heap, rng, pc, stack,
                   args, ret, start, removed, root_result, last_call, boardVars, state>>

\* the events of the round are handled and running is False: the while loop
\* ends, pygame.quit() and sys.exit() follow
MainEnds ==
    /\ Idle
    /\ ~ running
    /\ pc' = "exited"
    /\ UNCHANGED <<row_length, removed_cells, box_length, gen_solution, heap, rng, stack,
                   args, ret, start, removed, root_result, last_call, boardVars, state,
                   running>>

GameNext ==
    \/ StartClick
    \/ GeneratorStep
    \/ BoardInitSolution
    \/ StartPlaying
    \/ ResetClick
    \/ RestartClick
    \/ KeyEscape
    \/ CellClick
    \/ KeyClear
    \/ KeyReturn
    \/ KeyArrow
    \/ KeyDigit
    \/ EndRestartClick
    \/ Quit
    \/ Exit
    \/ MainEnds

GameSpec == GameInit /\ [][GameNext]_vars

\* the while loop of remove_cells keeps running: its next pick, and its
\* return once the loop condition fails, happen whenever they can
FairSpec == Spec /\ WF_vars(RemoveCellsPick) /\ WF_vars(RemoveCellsReturn)

\* ---- properties of the generator ---------------------------------------------
Digits(N) == 1 .. N

\* every row, column and box holds each of 1..N (N cells, so exactly once)
ValidGrid(g, N, B) ==
    /\ \A r \in Idx(N) : {g[r][c] : c \in Idx(N)} = Digits(N)
    /\ \A c \in Idx(N) : {g[r][c] : r \in Idx(N)} = Digits(N)
    /\ \A br \in Idx(B), bc \in Idx(B) :
          {g[br * B + i][bc * B + j] : i \in Idx(B), j \in Idx(B)} = Digits(N)

ZeroCells(g, N) == {p \in Idx(N) \X Idx(N) : g[p[1]][p[2]] = 0}

\* the grid with only its diagonal boxes, as fill_diagonal leaves it
DiagonalOnly(g, N, B) ==
    [r \in Idx(N) |-> [c \in Idx(N) |-> IF r \div B = c \div B THEN g[r][c] ELSE 0]]

\* some assignment of the zero cells makes the grid a valid solution
HasCompletion(g, N, B) ==
    \E f \in [ZeroCells(g, N) -> Digits(N)] :
        ValidGrid([r \in Idx(N) |-> [c \in Idx(N) |->
                     IF g[r][c] = 0 THEN f[<<r, c>>] ELSE g[r][c]]], N, B)

\* C1: after fill_values on SudokuGenerator(9, K) the recorded solution has
\* every row, column and 3x3 box holding each of 1..9 exactly once.
C1_SolutionValid9 ==
    (row_length = 9 /\ gen_solution # None) =>
        ValidGrid(heap[gen_solution], row_length, box_length)

C1_Witness ==
    /\ row_length = 9
    /\ pc = "filled"
    /\ gen_solution = "Solution"
    /\ ZeroCells(heap["Solution"], 9) = {}

\* C2 as stated: for every size the root call fill_remaining(0, B) of
\* fill_values returns True.
C2_RootAlwaysSucceeds == root_result # None => root_result = "True"

\* C2 amended: at size 9 the root call returns True; at size 4 it returns
\* True exactly when the diagonal pre-fill has a completion.
C2_RootSucceedsWhenCompletable ==
    pc = "filled" =>
        /\ row_length = 9 => root_result = "True"
        /\ row_length = 4 =>
              (root_result = "True" <=>
                  HasCompletion(DiagonalOnly(GenBoard, row_length, box_length),
                                row_length, box_length))

C2_Witness ==
    /\ pc = "filled"
    /\ row_length = 4
    /\ root_result = "False"
    /\ ZeroCells(GenBoard, 4) # {}

\* C3: when the root call of fill_values fails, no grid is recorded as the
\* solution (creation aborts instead).
C3_RootFailureAborts == root_result = "False" => gen_solution = None

\* C4: when remove_cells returns, exactly removed_cells cells of the board
\* are zero and every other cell equals the solution's.
C4_RemoveCellsExact ==
    pc = "removed" =>
        /\ Cardinality(ZeroCells(GenBoard, row_length)) = removed_cells
        /\ \A r \in Idx(row_length), c \in Idx(row_length) :
              GenBoard[r][c] # 0 => GenBoard[r][c] = heap[gen_solution][r][c]

\* C5: remove_cells, once called after fill_values, returns.
C5_RemoveCellsTerminates == (pc = "remove_cells") ~> (pc = "removed")

\* remove_cells returns whenever the recorded solution is complete
RemoveCellsTerminatesOnComplete ==
    (pc = "remove_cells" /\ root_result = "True") ~> (pc = "removed")

\* C7: get_solution before fill_values raises ValueError; after fill_values
\* it returns the recorded solution object, never None.
C7_GetSolution ==
    last_call.op = "get_solution" =>
        IF pc = "new"
        THEN last_call.value = "ValueError"
        ELSE /\ last_call.value = "Solution"
             /\ last_call.value = gen_solution
             /\ heap[last_call.value] # NoGrid

C7_Witness == pc = "new" /\ last_call = Call("get_solution", "ValueError")

\* ---- properties of the Board ------------------------------------------------------
EditCalls == {"clear", "sketch", "place_number", "commit_sketched_value"}

\* C6: from the step in which fill_values records the solution onwards, no
\* step (of remove_cells, of Board.__init__ or of a Board method) changes
\* which grid is the solution or any cell of it, in the generator and in
\* the Board.
C6_SolutionNeverAltered ==
    [][(gen_solution # None =>
            /\ gen_solution' = gen_solution
            /\ heap'[gen_solution] = heap[gen_solution])
       /\ (solution # None =>
            /\ solution' = solution
            /\ heap'[solution] = heap[solution])]_vars

C6_Witness ==
    /\ pc = "ready"
    /\ solution = gen_solution
    /\ ZeroCells(heap[solution], BoardSide) = {}
    /\ ZeroCells(GenBoard, BoardSide) # {}
    /\ last_call.op = "check_board"
    /\ heap[board] # heap[original_board]
    /\ \E r \in Idx(BoardSide), c \in Idx(BoardSide) : cells[r][c].sketched_value # 0

\* C8: on a constructed Board every cell that original_board gives holds
\* the value the generator's puzzle gave it, in original_board, in board
\* and in its Cell, and has no sketch; a clear, sketch, place_number or
\* commit_sketched_value called with such a cell selected changes nothing.
C8_LockedCells ==
    pc = "ready" =>
        /\ \A r \in Idx(BoardSide), c \in Idx(BoardSide) :
              heap[original_board][r][c] # 0 =>
                  /\ heap[original_board][r][c] = GenBoard[r][c]
                  /\ heap[board][r][c] = GenBoard[r][c]
                  /\ cells[r][c].value = GenBoard[r][c]
                  /\ cells[r][c].sketched_value = 0
                  /\ cells[r][c].locked
        /\ (/\ last_call.op \in EditCalls
            /\ selected # NoSelection
            /\ heap[original_board][selected[1]][selected[2]] # 0) =>
                  last_call.changed = {}

C8_Witness ==
    /\ pc = "ready"
    /\ last_call.op = "place_number"
    /\ selected # NoSelection
    /\ heap[original_board][selected[1]][selected[2]] # 0
    /\ heap[board] # heap[original_board]

\* C9: the value check_board returns is True exactly when the working grid
\* (board, rebuilt from the cell values) equals the solution, and it is
\* False whenever a cell value is zero.
C9_CheckBoard ==
    last_call.op = "check_board" =>
        /\ last_call.value = PyBool(heap[board] = heap[solution])
        /\ heap[board] = [r \in Idx(BoardSide) |-> [c \in Idx(BoardSide) |->
                             cells[r][c].value]]
        /\ (\E r \in Idx(BoardSide), c \in Idx(BoardSide) : heap[board][r][c] = 0) =>
               last_call.value = "False"
        /\ ~ is_full(Self) => last_call.value = "False"

C9_Witness ==
    /\ last_call.op = "check_board"
    /\ last_call.value = "True"
    /\ heap[board] = heap[solution]
    /\ heap[board] # heap[original_board]

\* C10: when reset_to_original has returned, board and every cell value
\* equal original_board and every sketched value is 0.
C10_ResetRoundTrip ==
    last_call.op = "reset_to_original" =>
        /\ heap[board] = heap[original_board]
        /\ \A r \in Idx(BoardSide), c \in Idx(BoardSide) :
              /\ cells[r][c].value = heap[original_board][r][c]
              /\ cells[r][c].sketched_value = 0

\* a reset that had a selection and placed values to undo has returned
C10_Witness ==
    /\ last_call.op = "reset_to_original"
    /\ {"heap", "cells", "selected"} \subseteq last_call.changed
    /\ selected = NoSelection
    /\ heap[board] = heap[original_board]

\* ---- properties of the session --------------------------------------------------
\* the Board the step leaves is full / holds the solution in every cell
FullAfter ==
    /\ cells' # <<>>
    /\ \A r \in Idx(BoardSide), c \in Idx(BoardSide) : cells'[r][c].value # 0

SolvedAfter ==
    /\ cells' # <<>>
    /\ \A r \in Idx(BoardSide), c \in Idx(BoardSide) :
          cells'[r][c].value = heap'[solution'][r][c]

\* C11: a step taken in state playing ends in win exactly when it leaves the
\* board full and equal to the solution, and in lose exactly when it leaves
\* the board full and different from the solution; win and lose are entered
\* from playing only, and left for start only.
C11_SessionStateMachine ==
    [][/\ state = "playing" =>
            /\ state' = "win" <=> (FullAfter /\ SolvedAfter)
            /\ state' = "lose" <=> (FullAfter /\ ~ SolvedAfter)
       /\ state \in {"win", "lose"} => state' \in {state, "start"}
       /\ (state' \in {"win", "lose"} /\ state' # state) => state = "playing"]_vars

C11_Witness ==
    /\ state = "lose"
    /\ pc = "ready"
    /\ is_full(Self)
    /\ heap[board] # heap[solution]

\* C14: in state playing the board has an empty cell and board holds the
\* value of every cell.
C14_PlayingNotFull ==
    state = "playing" =>
        /\ ~ is_full(Self)
        /\ \A r \in Idx(BoardSide), c \in Idx(BoardSide) :
              heap[board][r][c] = cells[r][c].value

\* Return has committed a value and the game goes on
C14_Witness ==
    /\ state = "playing"
    /\ pc = "ready"
    /\ \E r \in Idx(BoardSide), c \in Idx(BoardSide) :
          heap[original_board][r][c] = 0 /\ cells[r][c].value # 0

\* the values of the cells, and the working grid
CellValues == [r \in Idx(BoardSide) |-> [c \in Idx(BoardSide) |-> cells[r][c].value]]

\* the step is a call of Board method op (every step of a constructed
\* Board records the method called)
IsCall(op) == pc = "ready" /\ last_call'.op = op

\* C12: a sketch call changes no cell value and no cell of board.  A
\* commit_sketched_value call with an unlocked cell selected whose sketch s
\* is nonzero leaves s as that cell's value and in board at that cell, the
\* cell's sketch 0, and everything else of the Board as it was; in every
\* other case it changes nothing.
C12_SketchAndCommit ==
    [][/\ IsCall("sketch") =>
            /\ [r \in Idx(BoardSide) |-> [c \in Idx(BoardSide) |-> cells'[r][c].value]]
                  = CellValues
            /\ heap' = heap
            /\ board' = board
       /\ IsCall("commit_sketched_value") =>
            IF /\ selected # NoSelection
               /\ ~ cells[selected[1]][selected[2]].locked
               /\ cells[selected[1]][selected[2]].sketched_value # 0
            THEN LET row == selected[1]
                     col == selected[2]
                     s == cells[row][col].sketched_value
                 IN  /\ cells' = [cells EXCEPT ![row][col].value = s,
                                               ![row][col].sketched_value = 0]
                     /\ board' = board
                     /\ heap' = [heap EXCEPT ![board][row][col] = s]
                     /\ selected' = selected
            ELSE /\ cells' = cells
                 /\ heap' = heap
                 /\ board' = board
                 /\ selected' = selected]_vars

\* a commit has written a sketched value
C12_Witness ==
    /\ pc = "ready"
    /\ last_call.op = "commit_sketched_value"
    /\ {"cells", "heap"} \subseteq last_call.changed
    /\ selected # NoSelection
    /\ cells[selected[1]][selected[2]].value # 0
    /\ cells[selected[1]][selected[2]].sketched_value = 0
    /\ heap[board][selected[1]][selected[2]] = cells[selected[1]][selected[2]].value

\* ---- properties of the fill -------------------------------------------------------
\* no nonzero value occurs twice in a row, a column or a box of g
NoDuplicates(g, N, B) ==
    /\ \A r \in Idx(N) : \A c \in Idx(N), d \in Idx(N) :
          (c < d /\ g[r][c] # 0) => g[r][c] # g[r][d]
    /\ \A c \in Idx(N) : \A r \in Idx(N), q \in Idx(N) :
          (r < q /\ g[r][c] # 0) => g[r][c] # g[q][c]
    /\ \A br \in Idx(B), bc \in Idx(B) : \A i \in Idx(N), j \in Idx(N) :
          (i < j /\ g[br * B + (i \div B)][bc * B + (i % B)] # 0) =>
              g[br * B + (i \div B)][bc * B + (i % B)]
                 # g[br * B + (j \div B)][bc * B + (j % B)]

\* C13: the generator's board never holds a nonzero value twice in a row,
\* column or box; no step of fill_remaining changes a cell of a diagonal
\* box; and when a fill_remaining call returns False the board is as it was
\* when that call was entered.
C13_FillKeepsBoardConsistent ==
    /\ [](GenBoard # NoGrid => NoDuplicates(GenBoard, row_length, box_length))
    /\ [][/\ pc \in {"call", "loop", "return"} =>
               \A r \in Idx(row_length), c \in Idx(row_length) :
                   r \div box_length = c \div box_length =>
                       heap'["GenBoard"][r][c] = GenBoard[r][c]
          /\ (pc = "loop" /\ pc' = "return" /\ ret' = FALSE) =>
               heap'["GenBoard"] = Top.entry]_vars

\* a call below the root has returned False at side 9, after values were
\* placed and undone
C13_Witness ==
    /\ row_length = 9
    /\ pc = "return"
    /\ ret = FALSE
    /\ Len(stack) > 8

====
